---- MODULE Spec2Model ----
(***************************************************************************)
(* ember-file-upload: FileDropzoneComponent and FileUploadComponent bound  *)
(* to the queues of the FileQueueService.                                  *)
(*                                                                         *)
(* One action per event handler / lifecycle hook.  The collaborators whose *)
(* code is outside the two component files (Queue, FileQueueService,       *)
(* DataTransferWrapper, the run loop's next(), the modifier manager) are   *)
(* modelled from their documented contract.                                *)
(***************************************************************************)
EXTENDS Integers, Sequences, FiniteSets, TLC

(* ------------------------------ bounds --------------------------------- *)
\* total number of files added to the queues in one behaviour
MaxQueued == 2

(* ----------------------------- constants ------------------------------- *)
\* an omitted string-valued argument / an absent object
Undefined == "undefined"
None == [undefined |-> TRUE]
DEFAULT_QUEUE == "default"
\* a Queue object handed to a component through @queue
ExternalQueue == "external"
QueueNames == {DEFAULT_QUEUE, "photos"}
QueueIds == QueueNames \cup {ExternalQueue}
Components == {"dropzone", "upload"}
\* dataTransfer.dropEffect as the browser hands it to a handler
IncomingDropEffect == "none"

Min(a, b) == IF a < b THEN a ELSE b

(* --------------------------- drag payloads ----------------------------- *)
\* native File objects: X and Y are two files the caller's filter can tell apart
NativeFile(n) == [kind |-> "file", id |-> n]
X == NativeFile("X")
Y == NativeFile("Y")
\* a DataTransferItem that is not a File
TransferItem == [kind |-> "item", id |-> "item"]

\* filesOrItems of a payload: a FileList in drop order, or a list of drag items
EntryLists == {<<>>, <<X>>, <<Y>>, <<X, Y>>, <<Y, X>>, <<TransferItem>>}

\* event.dataTransfer: how the payload is classified and the entries it carries
DataTransfers == [source : {"os", "web"}, entries : EntryLists]

\* a drag event as it reaches a handler
DragEvents == [dataTransfer : DataTransfers, dropEffect : {IncomingDropEffect}]
\* drag-leave may arrive without a dataTransfer (guarded at line 193)
LeaveEvents == DragEvents \cup [dataTransfer : {None}, dropEffect : {Undefined}]

VARIABLES
  environment,          \* config:environment .environment
  args,                 \* FileDropzoneComponent.args
  uploadArgs,           \* FileUploadComponent.args
  active,               \* @tracked active
  dataTransferWrapper,  \* @tracked dataTransferWrapper
  isDestroyed,          \* FileDropzoneComponent.isDestroyed
  installed,            \* per component: the bindListeners modifier is installed
  registry,             \* FileQueueService: names for which a queue exists
  queueFiles,           \* per queue: its ordered files
  listeners,            \* per queue: its listeners, in registration order
  timers,               \* run loop: calls scheduled with next(), oldest first
  event,                \* the step just taken and the event it handled
  dropEffect,           \* event.dataTransfer.dropEffect when the handler returned
  trace,                \* callbacks invoked by the step just taken, in order
  forwarded,            \* every file FileUploadComponent passed to onFileAdd
  notified              \* every file FileUploadComponent.onFileAdded scheduled

vars == <<environment, args, uploadArgs, active, dataTransferWrapper, isDestroyed,
          installed, registry, queueFiles, listeners, timers, event, dropEffect,
          trace, forwarded, notified>>

(* ------------------------ DataTransferWrapper -------------------------- *)
DataTransferWrapper(e) == [dataTransfer |-> e.dataTransfer]

source(w) ==
  IF w.dataTransfer = None THEN "web" ELSE w.dataTransfer.source

filesOrItems(w) ==
  IF w.dataTransfer = None THEN <<>> ELSE w.dataTransfer.entries

\* the refresh without its guard: a wrapper is made when none is set
RefreshedOrCreated(w, e) ==
  IF w # None THEN [w EXCEPT !.dataTransfer = e.dataTransfer]
  ELSE [dataTransfer |-> e.dataTransfer]

\* this.dataTransferWrapper.dataTransfer = event.dataTransfer, when a wrapper is set
Refreshed(w, e) ==
  IF w # None THEN [w EXCEPT !.dataTransfer = e.dataTransfer] ELSE w

(* --------------------- FileDropzoneComponent getters ------------------- *)
\* multiple without the argument: always the default
multipleDefaultOnly(a) == TRUE

multiple(a) == IF a.multiple = Undefined THEN TRUE ELSE a.multiple = "true"

\* files without the multiple=false slice
filesUnsliced(w, a) == IF w = None THEN <<>> ELSE filesOrItems(w)

files(w, a) ==
  LET all == IF w = None THEN <<>> ELSE filesOrItems(w)
  IN IF multiple(a) THEN all ELSE SubSeq(all, 1, Min(1, Len(all)))

\* isAllowed without the source check: any wrapper passes
isAllowedAnySource(w, a) ==
  \/ environment = "test"
  \/ w # None
  \/ a.allowUploadsFromWebsites = TRUE

\* isAllowed without the opt-in: only the test environment and OS payloads pass
isAllowedOsOnly(w, a) ==
  \/ environment = "test"
  \/ (w # None /\ source(w) = "os")

isAllowed(w, a) ==
  \/ environment = "test"
  \/ (w # None /\ source(w) = "os")
  \/ a.allowUploadsFromWebsites = TRUE

\* cursor without the argument: always the default
cursorDefaultOnly(a) == "copy"

cursor(a) == IF a.cursor = Undefined THEN "copy" ELSE a.cursor

(* ------------------------- queue resolution ---------------------------- *)
\* get queue() without the @queue branch: always the registry's queue
queueByNameOnly(a) == IF a.name = Undefined THEN DEFAULT_QUEUE ELSE a.name

\* get queue(): @queue when given, else fileQueue.findOrCreate(@name ?? DEFAULT_QUEUE)
queue(a) ==
  IF a.queue # Undefined THEN a.queue
  ELSE IF a.name = Undefined THEN DEFAULT_QUEUE ELSE a.name

\* the registry after get queue() was read with these args
findOrCreate(reg, a) ==
  IF a.queue # Undefined THEN reg
  ELSE reg \cup {IF a.name = Undefined THEN DEFAULT_QUEUE ELSE a.name}

ArgsOf(c) == IF c = "dropzone" THEN args ELSE uploadArgs

(* ------------------------------ Queue ---------------------------------- *)
addListener(ls, c) == IF \E i \in 1..Len(ls) : ls[i] = c THEN ls ELSE Append(ls, c)

removeListener(ls, c) == SelectSeq(ls, LAMBDA x : x # c)

Call(cb, comp, fs, w) == [cb |-> cb, comp |-> comp, files |-> fs, wrapper |-> w]

\* onFileAdded handing the call to next(), as FileUploadComponent does
DropzoneOnFileAddedDeferred(S, file) ==
  IF args.onFileAdd THEN [S EXCEPT !.timers = Append(@, file)] ELSE S

\* FileDropzoneComponent.onFileAdded: this.args.onFileAdd?.(file), synchronously
DropzoneOnFileAdded(S, file) ==
  IF args.onFileAdd
  THEN [S EXCEPT !.trace = Append(@, Call("onFileAdd", "dropzone", <<file>>, None))]
  ELSE S

\* onFileAdded calling this.args.onFileAdd(file) at once instead of through next()
UploadOnFileAddedNow(S, file) ==
  IF uploadArgs.onFileAdd
  THEN [S EXCEPT !.trace = Append(@, Call("onFileAdd", "upload", <<file>>, None)),
                 !.notified = Append(@, file)]
  ELSE S

\* FileUploadComponent.onFileAdded: next(this, this.args.onFileAdd, file)
UploadOnFileAdded(S, file) ==
  IF uploadArgs.onFileAdd
  THEN [S EXCEPT !.timers = Append(@, file), !.notified = Append(@, file)]
  ELSE S

RECURSIVE NotifyListeners(_, _, _)
NotifyListeners(S, ls, file) ==
  IF ls = <<>> THEN S
  ELSE NotifyListeners(
         IF Head(ls) = "dropzone" THEN DropzoneOnFileAdded(S, file)
                                  ELSE UploadOnFileAdded(S, file),
         Tail(ls), file)

\* Queue.add(file): append, then notify every listener in registration order
QueueAdd(S, q, file) ==
  NotifyListeners([S EXCEPT !.queueFiles[q] = Append(@, file),
                            !.trace = Append(@, Call("add", "queue", <<file>>, None))],
                  listeners[q], file)

UploadFile(file, src) == [file |-> file.id, source |-> src]

\* the part of the state a handler running Queue.add works on
World ==
  [queueFiles |-> queueFiles, registry |-> registry, timers |-> timers,
   notified |-> notified, trace |-> <<>>, addedFiles |-> <<>>]

(* ------------------------------ addFiles ------------------------------- *)
filterAccepts(a, uploadFile) == uploadFile.file \notin a.filter.rejects

\* addFiles without the continue: a file the filter rejects is queued all the same
RECURSIVE addFilesKeepRejected(_, _)
addFilesKeepRejected(S, fs) ==
  IF fs = <<>> THEN S
  ELSE LET file == Head(fs)
           uploadFile == UploadFile(file, "dragAndDrop")
           asked == [S EXCEPT !.trace =
                       Append(@, Call("filter", "dropzone", <<uploadFile>>, None))]
       IN IF file.kind # "file" THEN addFilesKeepRejected(S, Tail(fs))
          ELSE LET S1 == IF args.filter # None THEN asked ELSE S
                   S2 == [S1 EXCEPT !.registry = findOrCreate(@, args)]
                   S3 == QueueAdd(S2, queue(args), uploadFile)
               IN addFilesKeepRejected([S3 EXCEPT !.addedFiles = Append(@, uploadFile)],
                                       Tail(fs))

RECURSIVE addFiles(_, _)
addFiles(S, fs) ==
  IF fs = <<>> THEN S
  ELSE LET file == Head(fs)
           uploadFile == UploadFile(file, "dragAndDrop")
           asked == [S EXCEPT !.trace =
                       Append(@, Call("filter", "dropzone", <<uploadFile>>, None))]
       IN IF file.kind # "file" THEN addFiles(S, Tail(fs))
          ELSE IF args.filter # None /\ ~filterAccepts(args, uploadFile)
               THEN addFiles(asked, Tail(fs))
          ELSE LET S1 == IF args.filter # None THEN asked ELSE S
                   S2 == [S1 EXCEPT !.registry = findOrCreate(@, args)]
                   S3 == QueueAdd(S2, queue(args), uploadFile)
               IN addFiles([S3 EXCEPT !.addedFiles = Append(@, uploadFile)], Tail(fs))

RECURSIVE SumLen(_, _)
SumLen(f, D) ==
  IF D = {} THEN 0
  ELSE LET d == CHOOSE x \in D : TRUE IN Len(f[d]) + SumLen(f, D \ {d})

TotalQueued(qf) == SumLen(qf, QueueIds)

(* ------------------------------- Init ---------------------------------- *)
QueueArgs ==
  { [queue |-> Undefined, name |-> Undefined],
    [queue |-> Undefined, name |-> "photos"],
    [queue |-> ExternalQueue, name |-> "photos"] }

\* re-rendering with another @name only
RenamedQueueArgs == {qa \in QueueArgs : qa.queue = Undefined}

\* @filter omitted, or a predicate rejecting the file X
Filters == {None, [rejects |-> {"X"}]}

Step(type) == [type |-> type, dataTransfer |-> None, dropEffect |-> Undefined]

Handled(type, e) ==
  [type |-> type, dataTransfer |-> e.dataTransfer, dropEffect |-> e.dropEffect]

\* the ways the dropzone is invoked: @multiple, @cursor, @filter and the callbacks
DropzoneArgs ==
  { [queue |-> Undefined, name |-> Undefined, allowUploadsFromWebsites |-> FALSE,
     multiple |-> m, cursor |-> cur, filter |-> flt,
     onDragEnter |-> cb, onDragLeave |-> cb, onDrop |-> cb, onFileAdd |-> cb] :
    m \in {Undefined, "false"}, cur \in {Undefined, "move"}, flt \in Filters,
    cb \in BOOLEAN }

UploadArgs ==
  { [queue |-> Undefined, name |-> Undefined, onFileAdd |-> cb] : cb \in BOOLEAN }

\* nothing rendered yet: no listener, no queue, no drag in progress
Constructed ==
  /\ active = FALSE
  /\ dataTransferWrapper = None
  /\ isDestroyed = FALSE
  /\ installed = [c \in Components |-> FALSE]
  /\ registry = {}
  /\ queueFiles = [q \in QueueIds |-> <<>>]
  /\ listeners = [q \in QueueIds |-> <<>>]
  /\ timers = <<>>
  /\ event = Step("none")
  /\ dropEffect = Undefined
  /\ trace = <<>>
  /\ forwarded = <<>>
  /\ notified = <<>>

\* a page with a dropzone, invoked in any of the ways above
Init ==
  /\ environment \in {"test", "production"}
  /\ args \in DropzoneArgs
  /\ uploadArgs \in {u \in UploadArgs : ~u.onFileAdd}
  /\ Constructed

\* a page with a dropzone and a file-upload component, both with every callback
InitListeners ==
  /\ environment = "production"
  /\ args \in {a \in DropzoneArgs : a.multiple = Undefined /\ a.cursor = Undefined
                                     /\ a.filter = None /\ a.onFileAdd}
  /\ uploadArgs \in UploadArgs
  /\ Constructed

(* ------------------- FileDropzoneComponent handlers -------------------- *)
Invoke(given, cb, fs, w) ==
  IF given THEN <<Call(cb, "dropzone", fs, w)>> ELSE <<>>

QueueFrame == UNCHANGED <<queueFiles, registry, timers, notified>>

Frame == UNCHANGED <<environment, args, uploadArgs, isDestroyed, installed, listeners,
                     forwarded>>

didEnterDropzone(e) ==
  LET w == DataTransferWrapper(e)
  IN /\ event' = Handled("dragenter", e)
     /\ dataTransferWrapper' = w
     /\ IF isAllowed(w, args)
        THEN /\ dropEffect' = cursor(args)
             /\ active' = TRUE
             /\ trace' = Invoke(args.onDragEnter, "onDragEnter", files(w, args), w)
        ELSE /\ dropEffect' = e.dropEffect
             /\ active' = active
             /\ trace' = <<>>
     /\ QueueFrame
     /\ Frame

didLeaveDropzone(e) ==
  LET w == Refreshed(dataTransferWrapper, e)
  IN /\ event' = Handled("dragleave", e)
     /\ IF w # None /\ isAllowed(w, args)
        THEN /\ dropEffect' = IF e.dataTransfer # None THEN cursor(args) ELSE e.dropEffect
             /\ trace' = Invoke(args.onDragLeave, "onDragLeave", files(w, args), w)
             /\ dataTransferWrapper' = None
             /\ active' = IF isDestroyed THEN active ELSE FALSE
        ELSE /\ dropEffect' = e.dropEffect
             /\ trace' = <<>>
             /\ dataTransferWrapper' = w
             /\ active' = active
     /\ QueueFrame
     /\ Frame

didDragOver(e) ==
  LET w == Refreshed(dataTransferWrapper, e)
  IN /\ event' = Handled("dragover", e)
     /\ dataTransferWrapper' = w
     /\ dropEffect' = IF isAllowed(w, args) THEN cursor(args) ELSE e.dropEffect
     /\ trace' = <<>>
     /\ active' = active
     /\ QueueFrame
     /\ Frame

\* didDrop without the wrapper guard around addFiles and onDrop
didDropUnguarded(e) ==
  LET w == Refreshed(dataTransferWrapper, e)
      S == addFiles(World, files(w, args))
  IN /\ event' = Handled("drop", e)
     /\ IF ~isAllowed(w, args)
        THEN /\ dropEffect' = cursor(args)
             /\ dataTransferWrapper' = None
             /\ active' = active
             /\ trace' = <<>>
             /\ QueueFrame
        ELSE /\ TotalQueued(S.queueFiles) <= MaxQueued
             /\ dropEffect' = e.dropEffect
             /\ queueFiles' = S.queueFiles
             /\ registry' = S.registry
             /\ timers' = S.timers
             /\ notified' = S.notified
             /\ trace' = S.trace \o Invoke(args.onDrop, "onDrop", S.addedFiles, w)
             /\ active' = FALSE
             /\ dataTransferWrapper' = None
     /\ Frame

didDrop(e) ==
  LET w == Refreshed(dataTransferWrapper, e)
      S == addFiles(World, files(w, args))
  IN /\ event' = Handled("drop", e)
     /\ IF ~isAllowed(w, args)
        THEN /\ dropEffect' = cursor(args)
             /\ dataTransferWrapper' = None
             /\ active' = active
             /\ trace' = <<>>
             /\ QueueFrame
        ELSE IF w # None
        THEN /\ TotalQueued(S.queueFiles) <= MaxQueued
             /\ dropEffect' = e.dropEffect
             /\ queueFiles' = S.queueFiles
             /\ registry' = S.registry
             /\ timers' = S.timers
             /\ notified' = S.notified
             /\ trace' = S.trace \o Invoke(args.onDrop, "onDrop", S.addedFiles, w)
             /\ active' = FALSE
             /\ dataTransferWrapper' = None
        ELSE /\ dropEffect' = e.dropEffect
             /\ dataTransferWrapper' = w
             /\ active' = active
             /\ trace' = <<>>
             /\ QueueFrame
     /\ Frame

(* ------------------------ bindListeners modifier ----------------------- *)
\* this.queue.addListener(this)
Install(ls, c, a) == [ls EXCEPT ![queue(a)] = addListener(@, c)]

\* the returned destructor: this.queue.removeListener(this), this.queue read anew
Teardown(ls, c, a) == [ls EXCEPT ![queue(a)] = removeListener(@, c)]

DragFrame == UNCHANGED <<active, dataTransferWrapper, dropEffect>>

Attach(c) ==
  /\ ~installed[c]
  /\ c = "dropzone" => ~isDestroyed
  /\ event' = Step("render")
  /\ trace' = <<>>
  /\ registry' = findOrCreate(registry, ArgsOf(c))
  /\ listeners' = Install(listeners, c, ArgsOf(c))
  /\ installed' = [installed EXCEPT ![c] = TRUE]
  /\ DragFrame
  /\ UNCHANGED <<environment, args, uploadArgs, isDestroyed, queueFiles, timers,
                 forwarded, notified>>

Detach(c) ==
  /\ installed[c]
  /\ event' = Step("render")
  /\ trace' = <<>>
  /\ registry' = findOrCreate(registry, ArgsOf(c))
  /\ listeners' = Teardown(listeners, c, ArgsOf(c))
  /\ installed' = [installed EXCEPT ![c] = FALSE]
  /\ DragFrame
  /\ UNCHANGED <<environment, args, uploadArgs, isDestroyed, queueFiles, timers,
                 forwarded, notified>>

\* the dropzone is torn down: its modifier's destructor runs, isDestroyed turns true
Destroy ==
  /\ ~isDestroyed
  /\ event' = Step("destroy")
  /\ trace' = <<>>
  /\ isDestroyed' = TRUE
  /\ IF installed["dropzone"]
     THEN /\ registry' = findOrCreate(registry, args)
          /\ listeners' = Teardown(listeners, "dropzone", args)
          /\ installed' = [installed EXCEPT !["dropzone"] = FALSE]
     ELSE UNCHANGED <<registry, listeners, installed>>
  /\ DragFrame
  /\ UNCHANGED <<environment, args, uploadArgs, queueFiles, timers, forwarded, notified>>

\* @queue / @name change while rendered: an installed modifier is run again,
\* its previous destructor first
SetQueueArgs(c, qa) ==
  LET old == ArgsOf(c)
      new == [old EXCEPT !.queue = qa.queue, !.name = qa.name]
  IN /\ new # old
     /\ c = "dropzone" => ~isDestroyed
     /\ event' = Step("render")
     /\ trace' = <<>>
     /\ IF c = "dropzone" THEN args' = new /\ uploadArgs' = uploadArgs
                          ELSE uploadArgs' = new /\ args' = args
     /\ IF installed[c]
        THEN /\ registry' = findOrCreate(registry, new)
             /\ listeners' = Install(Teardown(listeners, c, new), c, new)
        ELSE UNCHANGED <<registry, listeners>>
     /\ DragFrame
     /\ UNCHANGED <<environment, isDestroyed, installed, queueFiles, timers, forwarded,
                    notified>>

SetAllowUploadsFromWebsites(b) ==
  /\ ~isDestroyed
  /\ b # args.allowUploadsFromWebsites
  /\ event' = Step("render")
  /\ trace' = <<>>
  /\ args' = [args EXCEPT !.allowUploadsFromWebsites = b]
  /\ DragFrame
  /\ UNCHANGED <<environment, uploadArgs, isDestroyed, installed, registry, queueFiles,
                 listeners, timers, forwarded, notified>>

(* ------------------------ files chosen / run loop ---------------------- *)
\* a file picked in the file chooser is added to an existing queue
selectFile(q, n) ==
  LET S == QueueAdd(World, q, UploadFile(NativeFile(n), "browse"))
  IN /\ q = ExternalQueue \/ q \in registry
     /\ TotalQueued(queueFiles) < MaxQueued
     /\ event' = Step("select")
     /\ queueFiles' = S.queueFiles
     /\ timers' = S.timers
     /\ notified' = S.notified
     /\ trace' = S.trace
     /\ DragFrame
     /\ UNCHANGED <<environment, args, uploadArgs, isDestroyed, installed, registry,
                    listeners, forwarded>>

RECURSIVE Forward(_)
Forward(fs) ==
  IF fs = <<>> THEN <<>>
  ELSE <<Call("onFileAdd", "upload", <<Head(fs)>>, None)>> \o Forward(Tail(fs))

\* a later turn of the run loop runs the k oldest calls scheduled with next()
RunNext(k) ==
  /\ k \in 1..Len(timers)
  /\ event' = Step("next")
  /\ trace' = Forward(SubSeq(timers, 1, k))
  /\ forwarded' = forwarded \o SubSeq(timers, 1, k)
  /\ timers' = SubSeq(timers, k + 1, Len(timers))
  /\ DragFrame
  /\ UNCHANGED <<environment, args, uploadArgs, isDestroyed, installed, registry,
                 queueFiles, listeners, notified>>

\* drag and drop over a dropzone
Next ==
  \/ \E e \in DragEvents : didEnterDropzone(e)
  \/ \E e \in LeaveEvents : didLeaveDropzone(e)
  \/ \E e \in DragEvents : didDragOver(e)
  \/ \E e \in DragEvents : didDrop(e)
  \/ Attach("dropzone")
  \/ Destroy
  \/ \E b \in BOOLEAN : SetAllowUploadsFromWebsites(b)

Spec == Init /\ [][Next]_vars

\* rendering, re-rendering and removing the two components while files are chosen
NextListeners ==
  \/ \E c \in Components : Attach(c)
  \/ \E c \in Components : Detach(c)
  \/ \E qa \in RenamedQueueArgs : SetQueueArgs("dropzone", qa)
  \/ \E qa \in QueueArgs : SetQueueArgs("upload", qa)
  \/ \E q \in QueueIds, n \in {"X", "Y"} : selectFile(q, n)
  \/ \E k \in 1..MaxQueued : RunNext(k)

SpecListeners == InitListeners /\ [][NextListeners]_vars

\* the file-upload component re-rendered beside a dropzone that is not; the run
\* loop runs every call scheduled with next()
NextForwarding ==
  \/ \E c \in Components : Attach(c)
  \/ \E c \in Components : Detach(c)
  \/ \E qa \in QueueArgs : SetQueueArgs("upload", qa)
  \/ \E q \in QueueIds, n \in {"X", "Y"} : selectFile(q, n)
  \/ \E k \in 1..MaxQueued : RunNext(k)

SpecForwarding ==
  /\ InitListeners
  /\ [][NextForwarding]_vars
  /\ WF_vars(\E k \in 1..MaxQueued : RunNext(k))

\* a dropzone and a file-upload component, each rendered with any @queue / @name,
\* re-rendered with another and removed, while files are dropped
InitResolution ==
  /\ environment = "production"
  /\ args \in {a \in DropzoneArgs : a.multiple = Undefined /\ a.cursor = Undefined
                                     /\ a.filter = None /\ a.onFileAdd}
  /\ uploadArgs \in {u \in UploadArgs : u.onFileAdd}
  /\ Constructed

\* an OS-origin drag carrying the file X
DragOfX == [dataTransfer |-> [source |-> "os", entries |-> <<X>>],
            dropEffect |-> IncomingDropEffect]

NextResolution ==
  \/ \E c \in Components : Attach(c)
  \/ \E c \in Components : Detach(c)
  \/ \E c \in Components, qa \in QueueArgs : SetQueueArgs(c, qa)
  \/ didEnterDropzone(DragOfX)
  \/ didDrop(DragOfX)

SpecResolution == InitResolution /\ [][NextResolution]_vars

(* ======================= properties: drag and drop ===================== *)
\* the step just taken invoked this dropzone callback
Invoked(tr, cb) == \E i \in 1..Len(tr) : tr[i].comp = "dropzone" /\ tr[i].cb = cb

\* the allow policy as the specification words it, for a drop carrying payload dt
PolicyPermits(hasWrapper, dt) ==
  \/ environment = "test"
  \/ (hasWrapper /\ dt.source = "os")
  \/ args.allowUploadsFromWebsites

RECURSIVE NativeFilesOf(_)
NativeFilesOf(entries) ==
  IF entries = <<>> THEN <<>>
  ELSE (IF Head(entries).kind = "file" THEN <<Head(entries)>> ELSE <<>>)
       \o NativeFilesOf(Tail(entries))

PassesFilter(f) == args.filter = None \/ f.id \notin args.filter.rejects

RECURSIVE Passing(_)
Passing(fs) ==
  IF fs = <<>> THEN <<>>
  ELSE (IF PassesFilter(Head(fs))
        THEN <<[file |-> Head(fs).id, source |-> "dragAndDrop"]>> ELSE <<>>)
       \o Passing(Tail(fs))

OnDropCalls(tr) == SelectSeq(tr, LAMBDA c : c.comp = "dropzone" /\ c.cb = "onDrop")

\* C1: outside the test environment and without allowUploadsFromWebsites, a drop
\* whose payload is classified web-origin, or that finds no wrapper, leaves every
\* queue as it was and invokes neither onDrop nor onFileAdd.
C1_WebDropQueuesNothing ==
  [][(/\ event'.type = "drop"
      /\ environment # "test"
      /\ ~args.allowUploadsFromWebsites
      /\ (dataTransferWrapper = None \/ event'.dataTransfer.source = "web"))
     => (/\ queueFiles' = queueFiles
         /\ ~Invoked(trace', "onDrop")
         /\ ~Invoked(trace', "onFileAdd"))]_vars

\* a web-origin payload full of native files was dropped on a mounted dropzone
\* in mid-drag, with callbacks given, and nothing was queued
C1_Witness ==
  /\ event.type = "drop"
  /\ environment # "test"
  /\ ~args.allowUploadsFromWebsites
  /\ event.dataTransfer.source = "web"
  /\ event.dataTransfer.entries = <<X, Y>>
  /\ args.onDrop /\ args.filter = None
  /\ installed["dropzone"]
  /\ active
  /\ queueFiles[queue(args)] = <<>>

\* C2: with allowUploadsFromWebsites false outside the test environment, neither
\* didDragOver nor didDrop changes dropEffect on a web-origin drag.
C2_DropEffectUntouched ==
  (/\ event.type \in {"dragover", "drop"}
   /\ environment # "test"
   /\ ~args.allowUploadsFromWebsites
   /\ event.dataTransfer.source = "web")
  => dropEffect = event.dropEffect

\* C3: an allowed drop with multiple=true appends exactly the dropped native files
\* that pass the filter, in dropped order, to the component's queue and to no
\* other, and onDrop receives that same list once.
C3_DropQueuesFiltered ==
  [][(/\ event'.type = "drop"
      /\ multiple(args)
      /\ dataTransferWrapper # None
      /\ PolicyPermits(TRUE, event'.dataTransfer))
     => LET accepted == Passing(NativeFilesOf(event'.dataTransfer.entries))
            q == queue(args)
        IN /\ queueFiles'[q] = queueFiles[q] \o accepted
           /\ \A other \in QueueIds \ {q} : queueFiles'[other] = queueFiles[other]
           /\ args.onDrop =>
                /\ Len(OnDropCalls(trace')) = 1
                /\ OnDropCalls(trace')[1].files = accepted]_vars

\* the filter rejects X, [X, Y] was dropped: only Y is queued and handed to onDrop
C3_Witness ==
  /\ event.type = "drop"
  /\ multiple(args)
  /\ args.filter # None /\ args.onDrop
  /\ event.dataTransfer.entries = <<X, Y>>
  /\ queueFiles[queue(args)] = <<[file |-> "Y", source |-> "dragAndDrop"]>>
  /\ Len(OnDropCalls(trace)) = 1
  /\ OnDropCalls(trace)[1].files = <<[file |-> "Y", source |-> "dragAndDrop"]>>

AllowedDropOfSeveral(e) ==
  /\ e.type = "drop"
  /\ ~multiple(args)
  /\ dataTransferWrapper # None
  /\ PolicyPermits(TRUE, e.dataTransfer)
  /\ Len(e.dataTransfer.entries) > 1
  /\ NativeFilesOf(e.dataTransfer.entries) = e.dataTransfer.entries

\* C4 as stated: with multiple=false an allowed drop of N>1 files adds exactly one
\* file, the first of the dropped files.
C4_Original ==
  [][AllowedDropOfSeveral(event')
     => queueFiles'[queue(args)] =
          Append(queueFiles[queue(args)],
                 [file |-> event'.dataTransfer.entries[1].id, source |-> "dragAndDrop"])]_vars

\* C4 amended: with multiple=false an allowed drop of N>1 files adds the first of
\* the dropped files when it passes the filter (or no filter is given) and no file
\* otherwise; never another file than the first.
C4_FirstFileOnly ==
  [][AllowedDropOfSeveral(event')
     => queueFiles'[queue(args)] =
          queueFiles[queue(args)] \o
            (IF PassesFilter(event'.dataTransfer.entries[1])
             THEN <<[file |-> event'.dataTransfer.entries[1].id,
                     source |-> "dragAndDrop"]>>
             ELSE <<>>)]_vars

\* [Y, X] was dropped with multiple=false and an allowing policy: only Y is queued
C4_Witness ==
  /\ event.type = "drop"
  /\ ~multiple(args)
  /\ event.dataTransfer.entries = <<Y, X>>
  /\ event.dataTransfer.source = "os"
  /\ queueFiles[queue(args)] = <<[file |-> "Y", source |-> "dragAndDrop"]>>

\* C5: every drop returns the dropzone to idle: when didDrop has returned, active
\* is false and dataTransferWrapper is cleared.
C5_DropReturnsToIdle ==
  event.type = "drop" => (active = FALSE /\ dataTransferWrapper = None)

\* C6: between handlers the dropzone is idle or dragging: active is true exactly
\* when dataTransferWrapper is set.
C6_IdleOrDragging ==
  active <=> (dataTransferWrapper # None)

\* C10: once the dropzone is destroyed, no handler changes active or
\* dataTransferWrapper.
C10_DestroyedIsFrozen ==
  [][isDestroyed => (active' = active /\ dataTransferWrapper' = dataTransferWrapper)]_vars

(* ===================== properties: listener lifetime =================== *)
IsListener(c, q) == \E i \in 1..Len(listeners[q]) : listeners[q][i] = c

UploadCalls(tr) == SelectSeq(tr, LAMBDA c : c.comp = "upload")

\* C7: a component whose bindListeners modifier is not installed is registered as
\* a listener on no queue.
C7_NoListenerAfterDetach ==
  \A c \in Components, q \in QueueIds : ~installed[c] => ~IsListener(c, q)

\* C8: FileUploadComponent's onFileAdd is invoked only while the component is
\* attached.
C8_NoCallbackAfterDetach ==
  UploadCalls(trace) # <<>> => installed["upload"]

\* what one step may do to the calls scheduled with next() and to onFileAdd
ForwardingStep ==
  /\ event'.type # "next" =>
       /\ UploadCalls(trace') = <<>>
       /\ forwarded' = forwarded
  /\ \A q \in QueueIds :
       queueFiles'[q] # queueFiles[q] =>
         timers' = IF IsListener("upload", q) /\ uploadArgs.onFileAdd
                   THEN Append(timers, queueFiles'[q][Len(queueFiles'[q])])
                   ELSE timers
  /\ (queueFiles' = queueFiles /\ event'.type # "next") => timers' = timers
  /\ event'.type = "next" =>
       /\ Len(forwarded') > Len(forwarded)
       /\ forwarded' \o timers' = forwarded \o timers
       /\ UploadCalls(trace') =
            Forward(SubSeq(forwarded', Len(forwarded) + 1, Len(forwarded')))

\* C9: FileUploadComponent.onFileAdd is never invoked in the step that adds a file;
\* each file added to a queue the component listens on, with onFileAdd given, is
\* scheduled once and a later run-loop turn passes it to onFileAdd once, and files
\* are passed on in the order they were added.  (A scheduled call leaves timers
\* only by being passed to onFileAdd, so timers emptying means each was passed.)
C9_ForwardedDeferredInOrder ==
  /\ [][ForwardingStep]_vars
  /\ (timers # <<>>) ~> (timers = <<>>)

\* X then Y were added while the component listened; both reached onFileAdd, X first
C9_Witness ==
  /\ installed["upload"]
  /\ uploadArgs.onFileAdd
  /\ forwarded = <<[file |-> "X", source |-> "browse"], [file |-> "Y", source |-> "browse"]>>
  /\ timers = <<>>
  /\ event.type = "next"

(* ================== properties: web-origin and OS-origin =============== *)
\* what a caller can observe of a wrapper apart from its source classification
WrapperView(w) ==
  IF w = None THEN [present |-> FALSE, entries |-> <<>>]
  ELSE [present |-> TRUE, entries |-> filesOrItems(w)]

\* a callback invocation apart from the source classification of its wrapper
CallView(c) ==
  [cb |-> c.cb, comp |-> c.comp, files |-> c.files, wrapper |-> WrapperView(c.wrapper)]

CallViews(tr) == [i \in 1..Len(tr) |-> CallView(tr[i])]

\* the same drag event with its payload classified OS-origin
AsOs(e) ==
  IF e.dataTransfer = None THEN e
  ELSE [e EXCEPT !.dataTransfer = [@ EXCEPT !.source = "os"]]

\* what a handler step leaves behind, apart from the source classification
Observed ==
  [active |-> active, wrapper |-> WrapperView(dataTransferWrapper),
   dropEffect |-> dropEffect, calls |-> CallViews(trace), queueFiles |-> queueFiles]

\* what the handler for this event type leaves behind, from the present state,
\* when it is handed the OS-origin twin of event e
ObservedAsOs(type, e) ==
  LET o == AsOs(e)
      w == IF type = "dragenter" THEN DataTransferWrapper(o)
                                 ELSE Refreshed(dataTransferWrapper, o)
      ok == isAllowed(w, args)
      S == addFiles(World, files(w, args))
      same == [active |-> active, wrapper |-> WrapperView(w),
               dropEffect |-> e.dropEffect, calls |-> <<>>, queueFiles |-> queueFiles]
  IN CASE type = "dragenter" ->
            IF ok
            THEN [same EXCEPT
                    !.active = TRUE, !.dropEffect = cursor(args),
                    !.calls = CallViews(Invoke(args.onDragEnter, "onDragEnter",
                                               files(w, args), w))]
            ELSE same
       [] type = "dragover" ->
            IF ok THEN [same EXCEPT !.dropEffect = cursor(args)] ELSE same
       [] type = "dragleave" ->
            IF w # None /\ ok
            THEN [same EXCEPT
                    !.active = IF isDestroyed THEN active ELSE FALSE,
                    !.wrapper = WrapperView(None),
                    !.dropEffect = IF e.dataTransfer # None THEN cursor(args)
                                                            ELSE e.dropEffect,
                    !.calls = CallViews(Invoke(args.onDragLeave, "onDragLeave",
                                               files(w, args), w))]
            ELSE same
       [] type = "drop" ->
            IF ~ok
            THEN [same EXCEPT !.wrapper = WrapperView(None),
                              !.dropEffect = cursor(args)]
            ELSE IF w # None
            THEN [same EXCEPT
                    !.active = FALSE, !.wrapper = WrapperView(None),
                    !.calls = CallViews(S.trace \o Invoke(args.onDrop, "onDrop",
                                                          S.addedFiles, w)),
                    !.queueFiles = S.queueFiles]
            ELSE same

DragTypes == {"dragenter", "dragover", "dragleave", "drop"}

\* C11: with allowUploadsFromWebsites true, a drag-enter, drag-over, drag-leave or
\* drop leaves behind the same active flag, the same wrapper (present or not, same
\* entries), the same dropEffect, the same callback invocations and the same
\* queues as it does when its payload is classified OS-origin; what it leaves
\* behind does not depend on the classification of an earlier event either, so
\* two runs differing only in the classifications pass through the same states.
C11_WebProcessedAsOs ==
  [][(event'.type \in DragTypes /\ args.allowUploadsFromWebsites)
     => Observed' = ObservedAsOs(event'.type, event')]_vars

\* outside the test environment, with allowUploadsFromWebsites true, a web-origin
\* payload [X, Y] was dropped in mid-drag: Y was queued and onDrop was invoked
C11_Witness ==
  /\ event.type = "drop"
  /\ environment # "test"
  /\ args.allowUploadsFromWebsites
  /\ event.dataTransfer.source = "web"
  /\ event.dataTransfer.entries = <<X, Y>>
  /\ args.filter # None /\ args.onDrop
  /\ queueFiles[queue(args)] = <<[file |-> "Y", source |-> "dragAndDrop"]>>
  /\ Invoked(trace, "onDrop")
  /\ ~active

(* ===================== properties: queue resolution ==================== *)
\* the queue the claim gives a component invoked with these arguments
ResolvesTo(a) ==
  CASE a.queue # Undefined -> a.queue
    [] a.queue = Undefined /\ a.name # Undefined -> a.name
    [] OTHER -> DEFAULT_QUEUE

DroppedX == [file |-> "X", source |-> "dragAndDrop"]

\* every read of get queue() by an installed component gave the claim's queue:
\* the component listens on it, and the registry holds it when it is a named one
ListensOnResolved ==
  \A c \in Components :
    installed[c] =>
      /\ IsListener(c, ResolvesTo(ArgsOf(c)))
      /\ ArgsOf(c).queue = Undefined => ResolvesTo(ArgsOf(c)) \in registry

\* rendering a component registers it on the claim's queue and on no other; a drop
\* adds to the claim's queue and to no other, and that queue is the very one a
\* file-upload component resolving to the same name (or @queue) listens on
ResolutionStep ==
  /\ \A c \in Components :
       (installed'[c] /\ ~installed[c]) =>
         \A q \in QueueIds \ {ResolvesTo(ArgsOf(c))} : listeners'[q] = listeners[q]
  /\ (event'.type = "drop" /\ queueFiles' # queueFiles) =>
       /\ queueFiles' = [queueFiles EXCEPT ![ResolvesTo(args)] = Append(@, DroppedX)]
       /\ (installed["upload"] /\ ResolvesTo(uploadArgs) = ResolvesTo(args))
            => notified' = Append(notified, DroppedX)

\* C12: a component's queue is @queue when given, otherwise the registry's queue
\* for @name, or for the default name when no name is given; two components
\* invoked with the same name, or both with neither, act on one and the same
\* queue, and components with different names on different queues.
C12_QueueResolution ==
  /\ []ListensOnResolved
  /\ [][ResolutionStep]_vars

\* dropzone and file-upload component both rendered with @name="photos": the file
\* dropped on the dropzone was added to the queue the file-upload component
\* listens on, and that component's onFileAdded received it
C12_Witness ==
  /\ event.type = "drop"
  /\ installed["dropzone"] /\ installed["upload"]
  /\ args.queue = Undefined /\ uploadArgs.queue = Undefined
  /\ args.name = "photos" /\ uploadArgs.name = "photos"
  /\ queueFiles["photos"] = <<DroppedX>>
  /\ queueFiles[DEFAULT_QUEUE] = <<>>
  /\ notified = <<DroppedX>>

(* ==================== properties: the drag handlers ==================== *)
\* the candidate file list of a payload: its entries, the first only when
\* @multiple is false
Candidates(dt) ==
  IF args.multiple = "false" /\ Len(dt.entries) > 1
  THEN <<dt.entries[1]>> ELSE dt.entries

ConfiguredCursor == IF args.cursor = Undefined THEN "copy" ELSE args.cursor

\* C13: a drag-enter is permitted exactly when the environment is 'test', or its
\* payload is OS-origin, or allowUploadsFromWebsites is true.  A permitted
\* drag-enter sets dropEffect to the configured cursor ('copy' by default), sets
\* active and invokes onDragEnter once, with the candidate files and the wrapper
\* of this event, and nothing else; one that is not permitted leaves active as it
\* was (false stays false), leaves dropEffect untouched and invokes nothing.
C13_DragEnter ==
  [][event'.type = "dragenter" =>
       IF PolicyPermits(TRUE, event'.dataTransfer)
       THEN /\ dropEffect' = ConfiguredCursor
            /\ active' = TRUE
            /\ dataTransferWrapper' = [dataTransfer |-> event'.dataTransfer]
            /\ trace' = IF args.onDragEnter
                        THEN <<[cb |-> "onDragEnter", comp |-> "dropzone",
                                files |-> Candidates(event'.dataTransfer),
                                wrapper |-> dataTransferWrapper']>>
                        ELSE <<>>
       ELSE /\ active' = active
            /\ dropEffect' = event'.dropEffect
            /\ trace' = <<>>]_vars

\* an OS-origin payload [X, Y] entered an idle dropzone with @cursor="move" and
\* @multiple=false outside the test environment: onDragEnter got [X]
C13_Witness ==
  /\ event.type = "dragenter"
  /\ environment # "test"
  /\ ~args.allowUploadsFromWebsites
  /\ event.dataTransfer = [source |-> "os", entries |-> <<X, Y>>]
  /\ args.cursor = "move" /\ args.multiple = "false" /\ args.onDragEnter
  /\ dropEffect = "move"
  /\ active
  /\ Len(trace) = 1 /\ trace[1].cb = "onDragEnter" /\ trace[1].files = <<X>>
  /\ trace[1].wrapper = dataTransferWrapper

\* C14: a drag-over changes neither active nor whether a wrapper is set (a set
\* wrapper has its dataTransfer replaced by the event's), adds no file to any
\* queue and invokes no callback; it sets dropEffect to the configured cursor
\* when the allow policy permits and leaves dropEffect untouched when not.
C14_DragOverFrame ==
  [][event'.type = "dragover" =>
       /\ active' = active
       /\ (dataTransferWrapper' = None) <=> (dataTransferWrapper = None)
       /\ dataTransferWrapper # None =>
            dataTransferWrapper' = [dataTransfer |-> event'.dataTransfer]
       /\ queueFiles' = queueFiles
       /\ trace' = <<>>
       /\ timers' = timers
       /\ dropEffect' = IF PolicyPermits(dataTransferWrapper # None, event'.dataTransfer)
                        THEN ConfiguredCursor ELSE event'.dropEffect]_vars

\* a drag-over in mid-drag with @cursor="move": the wrapper now refers to this
\* event's payload, the dropzone is still active, dropEffect is 'move'
C14_Witness ==
  /\ event.type = "dragover"
  /\ environment # "test"
  /\ active
  /\ dataTransferWrapper = [dataTransfer |-> event.dataTransfer]
  /\ event.dataTransfer = [source |-> "os", entries |-> <<X, Y>>]
  /\ args.cursor = "move"
  /\ dropEffect = "move"
  /\ trace = <<>>

DropzoneCalls(tr, cb) == SelectSeq(tr, LAMBDA c : c.comp = "dropzone" /\ c.cb = cb)

\* every list this step handed to callback cb is empty or holds just the first
\* entry of the payload dt
FirstOnly(tr, cb, dt) ==
  \A i \in 1..Len(DropzoneCalls(tr, cb)) :
    LET fs == DropzoneCalls(tr, cb)[i].files
    IN Len(fs) <= 1 /\ (Len(fs) = 1 => fs[1] = dt.entries[1])

\* C15: with @multiple=false the lists handed to onDragEnter and onDragLeave hold
\* at most one entry, the first of the payload; a drop evaluates the filter at
\* most once, on the first file, adds at most one file over all queues, and hands
\* onDrop a list of at most one file.
C15_SingleCandidate ==
  [][(args.multiple = "false" /\ event'.type \in DragTypes) =>
       /\ event'.dataTransfer # None =>
            /\ FirstOnly(trace', "onDragEnter", event'.dataTransfer)
            /\ FirstOnly(trace', "onDragLeave", event'.dataTransfer)
       /\ event'.dataTransfer = None =>
            \A i \in 1..Len(trace') : trace'[i].files = <<>>
       /\ event'.type = "drop" =>
            /\ Len(DropzoneCalls(trace', "filter")) <= 1
            /\ \A i \in 1..Len(DropzoneCalls(trace', "filter")) :
                 DropzoneCalls(trace', "filter")[i].files =
                   <<[file |-> event'.dataTransfer.entries[1].id,
                      source |-> "dragAndDrop"]>>
            /\ TotalQueued(queueFiles') <= TotalQueued(queueFiles) + 1
            /\ \A i \in 1..Len(DropzoneCalls(trace', "onDrop")) :
                 Len(DropzoneCalls(trace', "onDrop")[i].files) <= 1]_vars

\* [Y, X] was dropped with @multiple=false and a filter: the filter was asked
\* about Y alone, Y alone was queued and handed to onDrop
C15_Witness ==
  /\ event.type = "drop"
  /\ args.multiple = "false"
  /\ args.filter # None /\ args.onDrop
  /\ event.dataTransfer.entries = <<Y, X>>
  /\ Len(DropzoneCalls(trace, "filter")) = 1
  /\ DropzoneCalls(trace, "filter")[1].files = <<[file |-> "Y", source |-> "dragAndDrop"]>>
  /\ queueFiles[queue(args)] = <<[file |-> "Y", source |-> "dragAndDrop"]>>
  /\ Len(DropzoneCalls(trace, "onDrop")) = 1
  /\ DropzoneCalls(trace, "onDrop")[1].files = <<[file |-> "Y", source |-> "dragAndDrop"]>>

\* the positions in tr of the calls of cb about this one file
Positions(tr, cb, file) == {i \in 1..Len(tr) : tr[i].cb = cb /\ tr[i].files = <<file>>}

Before(I, J) == \A i \in I, j \in J : i < j

\* C16: in a permitted drop that finds a wrapper, on a dropzone whose listener is
\* installed, each accepted file has the filter (when given) evaluated once before
\* it is added, is added once, and has the dropzone's onFileAdd (when given)
\* invoked once, within the drop and after the add; onDrop (when given) is
\* invoked once, as the last call of the drop and so after every add and
\* onFileAdd, with the accepted files and the still populated wrapper; when the
\* drop has returned, active is false and the wrapper is cleared.
C16_DropOrder ==
  [][(/\ event'.type = "drop"
      /\ installed["dropzone"]
      /\ dataTransferWrapper # None
      /\ PolicyPermits(TRUE, event'.dataTransfer))
     => LET dt == event'.dataTransfer
            tr == trace'
            accepted == Passing(NativeFilesOf(Candidates(dt)))
        IN /\ \A k \in 1..Len(accepted) :
                LET f == accepted[k]
                    asked == Positions(tr, "filter", f)
                    added == Positions(tr, "add", f)
                    told == Positions(tr, "onFileAdd", f)
                IN /\ Cardinality(asked) = IF args.filter # None THEN 1 ELSE 0
                   /\ Cardinality(added) = 1
                   /\ Cardinality(told) = IF args.onFileAdd THEN 1 ELSE 0
                   /\ Before(asked, added)
                   /\ Before(added, told)
                   /\ args.onDrop => Before(added \cup told, {Len(tr)})
           /\ Len(DropzoneCalls(tr, "onDrop")) = IF args.onDrop THEN 1 ELSE 0
           /\ args.onDrop =>
                /\ tr[Len(tr)].cb = "onDrop"
                /\ tr[Len(tr)].files = accepted
                /\ tr[Len(tr)].wrapper = [dataTransfer |-> dt]
           /\ active' = FALSE
           /\ dataTransferWrapper' = None]_vars

\* [X, Y] dropped on a mounted dropzone whose filter rejects X, every callback
\* given: filter(X), filter(Y), the add of Y, onFileAdd(Y), then onDrop([Y])
C16_Witness ==
  LET y == [file |-> "Y", source |-> "dragAndDrop"]
  IN /\ event.type = "drop"
     /\ installed["dropzone"]
     /\ args.filter # None /\ args.onFileAdd /\ args.onDrop
     /\ event.dataTransfer.entries = <<X, Y>>
     /\ Len(trace) = 5
     /\ trace[1].cb = "filter" /\ trace[1].files = <<[file |-> "X", source |-> "dragAndDrop"]>>
     /\ trace[2].cb = "filter" /\ trace[2].files = <<y>>
     /\ trace[3].cb = "add" /\ trace[3].files = <<y>>
     /\ trace[4].cb = "onFileAdd" /\ trace[4].files = <<y>>
     /\ trace[5].cb = "onDrop" /\ trace[5].files = <<y>>
     /\ trace[5].wrapper # None
     /\ ~active /\ dataTransferWrapper = None

\* C17: a drop or a drag-leave that finds no wrapper adds no file to any queue,
\* invokes no callback and leaves active as it was, whatever the environment
\* and allowUploadsFromWebsites are.
C17_NoWrapperNoEffect ==
  [][(event'.type \in {"drop", "dragleave"} /\ dataTransferWrapper = None)
     => /\ queueFiles' = queueFiles
        /\ trace' = <<>>
        /\ timers' = timers
        /\ active' = active
        /\ dataTransferWrapper' = None]_vars

\* in the test environment, where every drop is permitted, [X, Y] was dropped on
\* a dropzone given every callback and nothing was invoked or queued: the drop
\* had found no wrapper
C17_Witness ==
  /\ event.type = "drop"
  /\ environment = "test"
  /\ args.onDrop /\ args.filter = None
  /\ event.dataTransfer.entries = <<X, Y>>
  /\ trace = <<>>
  /\ queueFiles[queue(args)] = <<>>

\* C18: onDragLeave is invoked only by a drag-leave that finds the dropzone
\* dragging (active true), that is after a permitted drag-enter not yet closed by
\* a drag-leave or a drop.
C18_LeaveOnlyWhileDragging ==
  [][Invoked(trace', "onDragLeave") => active]_vars

====
